---- MODULE Spec2Model ----
(***************************************************************************)
(* Model of the memory game component (src/unnamed/part_000, rendered by   *)
(* src/app/page.tsx): the React state of MemoryGame, its event handlers,   *)
(* its two effects and the timeout callbacks the handlers schedule,        *)
(* together with the pure functions createCards and calculateScore.        *)
(*                                                                         *)
(* Conventions.  JavaScript arrays are sequences, so an index i of the     *)
(* source is the index i + 1 here.  A handler or callback is a closure     *)
(* over the values of the render that created it; a closure is modelled    *)
(* by a record of the values it reads.  Every action is one handler (or    *)
(* one timer callback) together with the re-render and the effect run it   *)
(* causes.                                                                 *)
(***************************************************************************)
EXTENDS Integers, Sequences, FiniteSets, TLC

(***************************************************************************)
(* Bounds of the exploration (none of them is a constant of the program).  *)
(***************************************************************************)
\* number of times "Commencer le jeu" is pressed in one run
MaxGames == 2
\* createCards: the shuffles explored in a game exchange the positions 2p and
\* 2p + 1 for one p up to this bound, or exchange nothing
MaxShuffle == 2
\* the player clicks among the first ClickChoices unmatched cards
ClickChoices == 2
\* in a timed game the player clicks only in the last ClickWindow seconds
ClickWindow == 1
\* createCards checked alone: number of exchanges of neighbours in the shuffle
MaxSwaps == 2

(***************************************************************************)
(* Constant tables of the program.                                         *)
(***************************************************************************)
GameModes == {"normal", "chrono"}

Difficulties == {"facile", "moyen", "difficile", "extreme"}

DIFFICULTY_CONFIG ==
    [ facile    |-> [pairs |-> 6,  time |-> 120, baseScore |-> 100],
      moyen     |-> [pairs |-> 8,  time |-> 90,  baseScore |-> 200],
      difficile |-> [pairs |-> 10, time |-> 60,  baseScore |-> 300],
      extreme   |-> [pairs |-> 12, time |-> 45,  baseScore |-> 400] ]

ICONS == <<"Heart", "Star", "Sun", "Moon", "Cloud", "Flower2">>

COLORS == <<"text-rose-400", "text-amber-400", "text-yellow-400",
            "text-purple-400", "text-sky-400", "text-emerald-400">>

(***************************************************************************)
(* createCards.  Array.prototype.sort with the comparator                  *)
(* () => Math.random() - 0.5 returns the elements in an order that depends *)
(* on the random draws: the draws are the parameter rnd, a sequence of     *)
(* exchanges <<i, j>> of positions applied in order.                       *)
(***************************************************************************)
\* a faulty exchange, which copies one element over the other instead of
\* swapping them: the properties of the deck tell it from Exchange
Overwrite(s, i, j) ==
    IF i \in DOMAIN s /\ j \in DOMAIN s
    THEN [s EXCEPT ![i] = s[j]]
    ELSE s

Exchange(s, i, j) ==
    IF i \in DOMAIN s /\ j \in DOMAIN s
    THEN [s EXCEPT ![i] = s[j], ![j] = s[i]]
    ELSE s

RECURSIVE sort(_, _)
sort(s, rnd) ==
    IF rnd = <<>> THEN s
    ELSE sort(Exchange(s, Head(rnd)[1], Head(rnd)[2]), Tail(rnd))

\* a faulty loop, which takes the icon of a card from the position of the card
\* instead of the index of its pair
pushedCardsByPosition(difficulty) ==
    LET pairs == DIFFICULTY_CONFIG[difficulty].pairs
    IN  [k \in 1..(2 * pairs) |->
            [ id        |-> k - 1,
              icon      |-> ICONS[((k - 1) % Len(ICONS)) + 1],
              color     |-> COLORS[((k - 1) % Len(COLORS)) + 1],
              isMatched |-> FALSE ]]

\* the cards pushed by the loop, in the order of the pushes
pushedCards(difficulty) ==
    LET pairs == DIFFICULTY_CONFIG[difficulty].pairs
    IN  [k \in 1..(2 * pairs) |->
            LET i == (k - 1) \div 2
            IN  [ id        |-> k - 1,
                  icon      |-> ICONS[(i % Len(ICONS)) + 1],
                  color     |-> COLORS[(i % Len(COLORS)) + 1],
                  isMatched |-> FALSE ]]

createCards(difficulty, rnd) == sort(pushedCards(difficulty), rnd)

(***************************************************************************)
(* calculateScore.  The time bonus is computed in IEEE 754 double          *)
(* precision, Math.floor((timeLeft / time) * baseScore * matches): the     *)
(* quotient is rounded to 53 significant bits, and so is each product.     *)
(* A double x >= 0 is modelled exactly, its 53-bit mantissa cut in three   *)
(* limbs of 13, 20 and 20 bits:                                            *)
(*     x = (hi * 2^40 + mid * 2^20 + lo) * 2^exp,  2^12 <= hi < 2^13,      *)
(* and 0 is the record with all fields 0.  No intermediate value leaves    *)
(* 31 bits.                                                                *)
(***************************************************************************)
Limb == 2 ^ 20

HiMin == 2 ^ 12

DoubleZero == [hi |-> 0, mid |-> 0, lo |-> 0, exp |-> 0]

\* round to nearest, ties to even: guard is the first digit cut off, sticky
\* tells whether a 1 follows it
roundToDouble(hi, mid, lo, exp, guard, sticky) ==
    IF ~(guard = 1 /\ (sticky \/ lo % 2 = 1))
    THEN [hi |-> hi, mid |-> mid, lo |-> lo, exp |-> exp]
    ELSE IF lo + 1 < Limb
    THEN [hi |-> hi, mid |-> mid, lo |-> lo + 1, exp |-> exp]
    ELSE IF mid + 1 < Limb
    THEN [hi |-> hi, mid |-> mid + 1, lo |-> 0, exp |-> exp]
    ELSE IF hi + 1 < 2 * HiMin
    THEN [hi |-> hi + 1, mid |-> 0, lo |-> 0, exp |-> exp]
    ELSE [hi |-> HiMin, mid |-> 0, lo |-> 0, exp |-> exp + 1]

\* the double nearest to n / d, for naturals n < 2^11 and 0 < d < 2^7 with
\* n / d >= 2^-7, by long division, 13 then 20 then 20 digits and one more
doubleDivide(n, d) ==
    IF n = 0 THEN DoubleZero
    ELSE LET a  == CHOOSE k \in 0..19 :
                       HiMin <= (n * 2 ^ k) \div d /\ (n * 2 ^ k) \div d < 2 * HiMin
             r1 == (n * 2 ^ a) % d
             r2 == (r1 * Limb) % d
             r3 == (r2 * Limb) % d
         IN  roundToDouble((n * 2 ^ a) \div d, (r1 * Limb) \div d, (r2 * Limb) \div d,
                           0 - a - 40, (2 * r3) \div d, (2 * r3) % d # 0)

\* the double nearest to x * k, for a double x and a natural k < 2^10
doubleTimes(x, k) ==
    IF x.hi = 0 \/ k = 0 THEN DoubleZero
    ELSE LET p0 == x.lo * k
             p1 == x.mid * k + p0 \div Limb
             p2 == x.hi * k + p1 \div Limb
             d0 == p0 % Limb
             d1 == p1 % Limb
             \* the product is p2 * 2^40 + d1 * 2^20 + d0; t digits too many
             t  == CHOOSE j \in 0..11 : HiMin * 2 ^ j <= p2 /\ p2 < 2 * HiMin * 2 ^ j
             cut == d0 % (2 ^ t)
         IN  IF t = 0 THEN [hi |-> p2, mid |-> d1, lo |-> d0, exp |-> x.exp]
             ELSE roundToDouble(p2 \div 2 ^ t,
                                (p2 % 2 ^ t) * 2 ^ (20 - t) + d1 \div 2 ^ t,
                                (d1 % 2 ^ t) * 2 ^ (20 - t) + d0 \div 2 ^ t,
                                x.exp + t,
                                cut \div 2 ^ (t - 1),
                                cut % 2 ^ (t - 1) # 0)

\* Math.floor of a double 0 <= x < 2^31
floor(x) ==
    IF x.hi = 0 \/ x.exp <= 0 - 53 THEN 0
    ELSE IF x.exp <= 0 - 40 THEN x.hi \div 2 ^ (0 - x.exp - 40)
    ELSE x.hi * 2 ^ (40 + x.exp) + x.mid \div 2 ^ (0 - x.exp - 20)

calculateScore(m, difficulty, matchCount, timeRemaining) ==
    LET baseScore  == DIFFICULTY_CONFIG[difficulty].baseScore
        time       == DIFFICULTY_CONFIG[difficulty].time
        matchScore == matchCount * baseScore
        \* Math.floor((timeLeft / time) * baseScore * matches), each double
        \* computed once, from left to right
        timeBonus  ==
            CHOOSE bonus \in
                { floor(doubleTimes(product, matchCount)) :
                    product \in { doubleTimes(quotient, baseScore) :
                        quotient \in { doubleDivide(timeRemaining, time) } } } : TRUE
    IN  IF m = "normal" THEN matchScore ELSE matchScore + timeBonus

(***************************************************************************)
(* The best-score table and its persisted form.  An entry's time is        *)
(* <<t>> for a number t and <<>> for undefined.  JSON.stringify leaves out *)
(* a property whose value is undefined; read back, the absent property is  *)
(* undefined again.                                                        *)
(***************************************************************************)
JSONstringify(table) ==
    [ present    |-> TRUE,
      wellFormed |-> TRUE,
      entries    |-> [i \in DOMAIN table |->
                        IF table[i].time = <<>>
                        THEN [ mode |-> table[i].mode, difficulty |-> table[i].difficulty,
                               score |-> table[i].score ]
                        ELSE [ mode |-> table[i].mode, difficulty |-> table[i].difficulty,
                               score |-> table[i].score, time |-> table[i].time[1] ]] ]

JSONparse(text) ==
    [i \in DOMAIN text.entries |->
        [ mode       |-> text.entries[i].mode,
          difficulty |-> text.entries[i].difficulty,
          score      |-> text.entries[i].score,
          time       |-> IF "time" \in DOMAIN text.entries[i]
                         THEN <<text.entries[i].time>> ELSE <<>> ]]

\* localStorage holds nothing under the key "bestScores"
StorageAbsent == [present |-> FALSE, wellFormed |-> FALSE, entries |-> <<>>]

\* localStorage holds a text JSON.parse rejects
StorageMalformed == [present |-> TRUE, wellFormed |-> FALSE, entries |-> <<>>]

\* a table written by an earlier run: a normal facile game won, then a
\* timed facile game lost with three pairs found
StoredTable ==
    << [mode |-> "normal", difficulty |-> "facile", score |-> 500, time |-> <<>>],
       [mode |-> "chrono", difficulty |-> "facile", score |-> 300, time |-> <<0>>] >>

\* what the browser may hold when the page is loaded
StoredValues == {StorageAbsent, StorageMalformed, JSONstringify(StoredTable)}

\* Array.prototype.findIndex for the key (m, d): 0 stands for -1
findIndex(table, m, d) ==
    IF \E i \in DOMAIN table : table[i].mode = m /\ table[i].difficulty = d
    THEN CHOOSE i \in DOMAIN table :
            /\ table[i].mode = m /\ table[i].difficulty = d
            /\ \A j \in 1..(i - 1) : ~(table[j].mode = m /\ table[j].difficulty = d)
    ELSE 0

(***************************************************************************)
(* Timers.  The delays of the scheduled callbacks, in milliseconds.        *)
(***************************************************************************)
PreviewDelay == 2000

TickDelay == 1000

MatchDelay == 500

MismatchDelay == 1000

\* the values a callback reads from the render that scheduled it; the timers
\* of the effect and the mismatch callback read none
NoEnv ==
    [ mode |-> "", difficulty |-> "", cards |-> <<>>, matches |-> 0, timeLeft |-> 0,
      bestScores |-> <<>>, firstIndex |-> 0, secondIndex |-> 0 ]

PreviewTimer == [kind |-> "preview", delay |-> PreviewDelay, env |-> NoEnv]

TickTimer == [kind |-> "interval", delay |-> TickDelay, env |-> NoEnv]

MismatchTimer == [kind |-> "mismatch", delay |-> MismatchDelay, env |-> NoEnv]

MatchTimer(env) == [kind |-> "match", delay |-> MatchDelay, env |-> env]

VARIABLES
    app,            \* "unmounted", "mounted", or "crashed" (an uncaught error)
    gameState, mode, difficulty, cards, flippedIndexes, matches, isChecking,
    timeLeft, score, bestScores,        \* the useState cells of MemoryGame
    localStorage,   \* what localStorage holds under "bestScores"
    timers,         \* the pending timers, in the order they were started
    toasts,         \* the toasts shown since the current game was started
    games,          \* how many games were started
    lastOp          \* the handler or callback that ran last

vars == << app, gameState, mode, difficulty, cards, flippedIndexes, matches, isChecking,
           timeLeft, score, bestScores, localStorage, timers, toasts, games, lastOp >>

\* the React state as one record: what a render, and so a closure, sees
Current ==
    [ gameState |-> gameState, mode |-> mode, difficulty |-> difficulty, cards |-> cards,
      flippedIndexes |-> flippedIndexes, matches |-> matches, isChecking |-> isChecking,
      timeLeft |-> timeLeft, score |-> score, bestScores |-> bestScores ]

\* what is outside the React state
Outside == [localStorage |-> localStorage, timers |-> timers, toasts |-> toasts]

Commit(s, o) ==
    \E state \in {s}, outside \in {o} :
        /\ gameState' = state.gameState
        /\ mode' = state.mode
        /\ difficulty' = state.difficulty
        /\ cards' = state.cards
        /\ flippedIndexes' = state.flippedIndexes
        /\ matches' = state.matches
        /\ isChecking' = state.isChecking
        /\ timeLeft' = state.timeLeft
        /\ score' = state.score
        /\ bestScores' = state.bestScores
        /\ localStorage' = outside.localStorage
        /\ timers' = outside.timers
        /\ toasts' = outside.toasts

(***************************************************************************)
(* endGame(isWin), called with the values env of the render whose closure  *)
(* it is, on the state s the pending updates have produced so far.         *)
(***************************************************************************)
finalScoreOf(env) == calculateScore(env.mode, env.difficulty, env.matches, env.timeLeft)

scoreEntry(env) ==
    [ mode |-> env.mode, difficulty |-> env.difficulty, score |-> finalScoreOf(env),
      time |-> IF env.mode = "chrono" THEN <<env.timeLeft>> ELSE <<>> ]

\* the condition of the if: no entry for the key, or one with a lower score
\* a faulty comparison, which records the final score whatever the table holds
isNewBestAlways(env) == TRUE

isNewBest(env) ==
    LET scoreIndex == findIndex(env.bestScores, env.mode, env.difficulty)
    IN  scoreIndex = 0 \/ env.bestScores[scoreIndex].score < finalScoreOf(env)

newBestScores(env) ==
    LET scoreIndex == findIndex(env.bestScores, env.mode, env.difficulty)
    IN  IF scoreIndex # 0
        THEN [env.bestScores EXCEPT ![scoreIndex] = scoreEntry(env)]
        ELSE Append(env.bestScores, scoreEntry(env))

endGameState(env, s) ==
    [s EXCEPT !.gameState = "finished",
              !.score = finalScoreOf(env),
              !.bestScores = IF isNewBest(env) THEN newBestScores(env) ELSE @]

endGameOutside(env, isWin, o) ==
    [o EXCEPT !.localStorage = IF isNewBest(env) THEN JSONstringify(newBestScores(env)) ELSE @,
              !.toasts = Append(@, IF isWin THEN "win" ELSE "loss")]

\* the values endGame reads in the render of state s
\* a faulty closure of the effect, which has forgotten the pairs found
endGameEnvNoMatches(s) ==
    [NoEnv EXCEPT !.mode = s.mode, !.difficulty = s.difficulty,
                  !.timeLeft = s.timeLeft, !.bestScores = s.bestScores]

endGameEnv(s) ==
    [NoEnv EXCEPT !.mode = s.mode, !.difficulty = s.difficulty, !.matches = s.matches,
                  !.timeLeft = s.timeLeft, !.bestScores = s.bestScores]

(***************************************************************************)
(* The timer effect, with dependencies [timeLeft, gameState, mode].  After *)
(* the render of state s: if a dependency changed, the clean-up clears the *)
(* effect's timer and the effect runs again; its third branch calls        *)
(* endGame(false), after which the dependencies have changed once more and *)
(* the effect finds nothing to do.                                         *)
(***************************************************************************)
isEffectTimer(t) == t.kind \in {"preview", "interval"}

withoutEffectTimer(tms) == SelectSeq(tms, LAMBDA t : ~isEffectTimer(t))

Render(s, o) ==
    \E state \in {s}, outside \in {o} :
        IF <<state.timeLeft, state.gameState, state.mode>> = <<timeLeft, gameState, mode>>
        THEN Commit(state, outside)
        ELSE LET cleaned == [outside EXCEPT !.timers = withoutEffectTimer(@)]
             IN  IF state.gameState = "preview"
                 THEN Commit(state, [cleaned EXCEPT !.timers = Append(@, PreviewTimer)])
                 ELSE IF state.gameState = "playing" /\ state.mode = "chrono" /\ state.timeLeft > 0
                 THEN Commit(state, [cleaned EXCEPT !.timers = Append(@, TickTimer)])
                 ELSE IF state.timeLeft = 0 /\ state.mode = "chrono" /\ state.gameState = "playing"
                 THEN \E env \in {endGameEnv(state)} :
                          Commit(endGameState(env, state),
                                 endGameOutside(env, FALSE, cleaned))
                 ELSE Commit(state, cleaned)

(***************************************************************************)
(* Initial state: the useState initial values, before the effects of the   *)
(* first render have run.                                                  *)
(***************************************************************************)
Init ==
    /\ app = "unmounted"
    /\ gameState = "setup"
    /\ mode = "normal"
    /\ difficulty = "facile"
    /\ cards = <<>>
    /\ flippedIndexes = <<>>
    /\ matches = 0
    /\ isChecking = FALSE
    /\ timeLeft = 0
    /\ score = 0
    /\ bestScores = <<>>
    /\ localStorage \in StoredValues
    /\ timers = <<>>
    /\ toasts = <<>>
    /\ games = 0
    /\ lastOp = "init"

(***************************************************************************)
(* The load effect of the first render.  JSON.parse throws on a malformed  *)
(* text; nothing catches it.                                               *)
(***************************************************************************)
Mount ==
    /\ app = "unmounted"
    /\ lastOp' = "mount"
    /\ UNCHANGED games
    /\ IF ~localStorage.present
       THEN app' = "mounted" /\ Render(Current, Outside)
       ELSE IF ~localStorage.wellFormed
       THEN app' = "crashed" /\ Commit(Current, Outside)
       ELSE /\ app' = "mounted"
            /\ Render([Current EXCEPT !.bestScores = JSONparse(localStorage)], Outside)

(***************************************************************************)
(* The two Select widgets of the setup screen.                             *)
(***************************************************************************)
SetMode(value) ==
    /\ app = "mounted" /\ gameState = "setup"
    /\ games = 0
    /\ lastOp' = "setMode"
    /\ UNCHANGED <<app, games>>
    /\ Render([Current EXCEPT !.mode = value], Outside)

\* in the runs explored the difficulty is chosen before the first game only,
\* and it is the one of the smallest deck or the one of the largest
ChosenDifficulties == {"facile", "extreme"}

SetDifficulty(value) ==
    /\ app = "mounted" /\ gameState = "setup"
    /\ games = 0
    /\ lastOp' = "setDifficulty"
    /\ UNCHANGED <<app, games>>
    /\ Render([Current EXCEPT !.difficulty = value], Outside)

(***************************************************************************)
(* startGame, the onClick of "Commencer le jeu" (rendered in setup only).  *)
(***************************************************************************)
\* the shuffles explored when a game is started
GameShuffles == {<<>>} \cup { << <<2 * p, 2 * p + 1>> >> : p \in 1..MaxShuffle }

\* a faulty startGame, which has forgotten setMatches(0)
startGameStateKeepingMatches(s, newCards) ==
    [s EXCEPT !.cards = newCards,
              !.flippedIndexes = [i \in 1..Len(newCards) |-> i],
              !.isChecking = FALSE,
              !.timeLeft = IF s.mode = "chrono" THEN DIFFICULTY_CONFIG[s.difficulty].time ELSE 0,
              !.gameState = "preview",
              !.score = 0]

startGameState(s, newCards) ==
    [s EXCEPT !.cards = newCards,
              !.flippedIndexes = [i \in 1..Len(newCards) |-> i],
              !.matches = 0,
              !.isChecking = FALSE,
              !.timeLeft = IF s.mode = "chrono" THEN DIFFICULTY_CONFIG[s.difficulty].time ELSE 0,
              !.gameState = "preview",
              !.score = 0]

StartGame(rnd) ==
    /\ app = "mounted" /\ gameState = "setup"
    /\ games < MaxGames
    /\ games' = games + 1
    /\ lastOp' = "startGame"
    /\ UNCHANGED app
    /\ Render(startGameState(Current, createCards(difficulty, rnd)),
              [Outside EXCEPT !.toasts = <<>>])

(***************************************************************************)
(* The onClick of "Rejouer" (rendered in finished only).                   *)
(***************************************************************************)
ReturnToSetup ==
    /\ app = "mounted" /\ gameState = "finished"
    /\ games < MaxGames
    /\ lastOp' = "returnToSetup"
    /\ UNCHANGED <<app, games>>
    /\ Render([Current EXCEPT !.gameState = "setup"], Outside)

(***************************************************************************)
(* handleCardClick, behind the onClick guard gameState === "playing".      *)
(***************************************************************************)
Range(f) == {f[i] : i \in DOMAIN f}

\* the condition of the early return
\* a faulty guard, which does not look for the index clicked among the
\* indexes flipped
clickIgnoredUnlessFlipped(s, clickedIndex) ==
    \/ s.isChecking
    \/ s.cards[clickedIndex].isMatched
    \/ Len(s.flippedIndexes) = 2

\* a faulty guard, which turns down the clicks on matched cards only
clickIgnoredIfMatched(s, clickedIndex) == s.cards[clickedIndex].isMatched

clickIgnored(s, clickedIndex) ==
    \/ s.isChecking
    \/ s.cards[clickedIndex].isMatched
    \/ clickedIndex \in Range(s.flippedIndexes)
    \/ Len(s.flippedIndexes) = 2

\* the values the confirm callback and its endGame read
matchEnv(s, firstIndex, secondIndex) ==
    [ mode |-> s.mode, difficulty |-> s.difficulty, cards |-> s.cards,
      matches |-> s.matches, timeLeft |-> s.timeLeft, bestScores |-> s.bestScores,
      firstIndex |-> firstIndex, secondIndex |-> secondIndex ]

\* the timer the second flip schedules
checkTimer(s, firstIndex, secondIndex) ==
    IF s.cards[firstIndex].icon = s.cards[secondIndex].icon
    THEN MatchTimer(matchEnv(s, firstIndex, secondIndex))
    ELSE MismatchTimer

\* the cards the player clicks in the runs explored: while playing, the first
\* ClickChoices unmatched cards and the first matched one; otherwise (where a
\* click does nothing) the first card
Candidates ==
    IF gameState # "playing" THEN { i \in DOMAIN cards : i = 1 }
    ELSE
    { i \in DOMAIN cards :
        IF cards[i].isMatched
        THEN \A j \in 1..(i - 1) : ~cards[j].isMatched
        ELSE Cardinality({j \in 1..(i - 1) : ~cards[j].isMatched}) < ClickChoices }

HandleCardClick(clickedIndex) ==
    /\ app = "mounted" /\ gameState = "playing"
    /\ clickedIndex \in DOMAIN cards
    /\ timeLeft <= ClickWindow
    /\ lastOp' = "click"
    /\ UNCHANGED <<app, games>>
    /\ IF clickIgnored(Current, clickedIndex)
       THEN Render(Current, Outside)
       ELSE LET newFlipped == Append(flippedIndexes, clickedIndex)
            IN  IF Len(newFlipped) = 2
                THEN Render([Current EXCEPT !.flippedIndexes = newFlipped,
                                            !.isChecking = TRUE],
                            [Outside EXCEPT !.timers =
                                Append(@, checkTimer(Current, newFlipped[1], newFlipped[2]))])
                ELSE Render([Current EXCEPT !.flippedIndexes = newFlipped], Outside)

\* the onClick of a card: the cards are rendered in the preview, while playing
\* and when the game is finished, and handleCardClick is called while playing
\* only; otherwise the click does nothing
onClick(index) ==
    /\ app = "mounted" /\ gameState \in {"preview", "playing", "finished"}
    /\ index \in DOMAIN cards
    /\ IF gameState = "playing"
       THEN HandleCardClick(index)
       ELSE /\ lastOp' = "click"
            /\ UNCHANGED <<app, games>>
            /\ Render(Current, Outside)

(***************************************************************************)
(* Timer callbacks.  Of two pending timers, the one started first runs     *)
(* first unless its delay is the longer one (HTML timers); otherwise the   *)
(* order is open.                                                          *)
(***************************************************************************)
canFire(k) == \A j \in 1..(k - 1) : timers[j].delay > timers[k].delay

withoutTimer(tms, k) == SubSeq(tms, 1, k - 1) \o SubSeq(tms, k + 1, Len(tms))

\* a faulty preview callback, which leaves the cards of the preview flipped
PreviewEndKeepingFlipped(k) ==
    /\ app = "mounted" /\ timers[k].kind = "preview" /\ canFire(k)
    /\ lastOp' = "previewEnd"
    /\ UNCHANGED <<app, games>>
    /\ Render([Current EXCEPT !.gameState = "playing"],
              [Outside EXCEPT !.timers = withoutTimer(@, k)])

\* the callback of the preview branch of the effect
PreviewEnd(k) ==
    /\ app = "mounted" /\ timers[k].kind = "preview" /\ canFire(k)
    /\ lastOp' = "previewEnd"
    /\ UNCHANGED <<app, games>>
    /\ Render([Current EXCEPT !.gameState = "playing", !.flippedIndexes = <<>>],
              [Outside EXCEPT !.timers = withoutTimer(@, k)])

\* a faulty interval callback, which takes two seconds off
TickByTwo(k) ==
    /\ app = "mounted" /\ timers[k].kind = "interval" /\ canFire(k)
    /\ lastOp' = "tick"
    /\ UNCHANGED <<app, games>>
    /\ Render([Current EXCEPT !.timeLeft = @ - 2], Outside)

\* the callback of the interval: setTimeLeft((time) => time - 1)
Tick(k) ==
    /\ app = "mounted" /\ timers[k].kind = "interval" /\ canFire(k)
    /\ lastOp' = "tick"
    /\ UNCHANGED <<app, games>>
    /\ Render([Current EXCEPT !.timeLeft = @ - 1], Outside)

\* cards.map(...) of the confirm callback, on the cards of its closure
markMatched(cs, firstIndex, secondIndex) ==
    [i \in DOMAIN cs |->
        IF i = firstIndex \/ i = secondIndex THEN [cs[i] EXCEPT !.isMatched = TRUE] ELSE cs[i]]

\* the state after setCards, setFlippedIndexes, setMatches, setIsChecking
matchState(s, env) ==
    [s EXCEPT !.cards = markMatched(env.cards, env.firstIndex, env.secondIndex),
              !.flippedIndexes = <<>>,
              !.matches = @ + 1,
              !.isChecking = FALSE]

\* the test inside the setMatches updater: m is the state, cards the closure's
isLastPair(m, env) == 2 * (m + 1) = Len(env.cards)

\* the confirm callback, 500 ms after a matching second flip
MatchCallback(k) ==
    /\ app = "mounted" /\ timers[k].kind = "match" /\ canFire(k)
    /\ lastOp' = "match"
    /\ UNCHANGED <<app, games>>
    /\ LET env == timers[k].env
           s1  == matchState(Current, env)
           o1  == [Outside EXCEPT !.timers = withoutTimer(@, k)]
       IN  IF isLastPair(matches, env)
           THEN Render(endGameState(env, s1), endGameOutside(env, TRUE, o1))
           ELSE Render(s1, o1)

\* the mismatch callback, 1000 ms after a non-matching second flip
\* a faulty mismatch callback, which counts the pair as found
mismatchStateCounting(s) ==
    [s EXCEPT !.flippedIndexes = <<>>, !.isChecking = FALSE, !.matches = @ + 1]

\* a faulty mismatch callback, which has forgotten setIsChecking(false)
mismatchStateStillChecking(s) == [s EXCEPT !.flippedIndexes = <<>>]

mismatchState(s) == [s EXCEPT !.flippedIndexes = <<>>, !.isChecking = FALSE]

MismatchCallback(k) ==
    /\ app = "mounted" /\ timers[k].kind = "mismatch" /\ canFire(k)
    /\ lastOp' = "mismatch"
    /\ UNCHANGED <<app, games>>
    /\ Render(mismatchState(Current), [Outside EXCEPT !.timers = withoutTimer(@, k)])

Next ==
    \/ Mount
    \/ \E value \in GameModes : SetMode(value)
    \/ \E value \in ChosenDifficulties : SetDifficulty(value)
    \/ \E rnd \in GameShuffles : StartGame(rnd)
    \/ ReturnToSetup
    \/ \E index \in Candidates : onClick(index)
    \/ \E k \in DOMAIN timers : PreviewEnd(k)
    \/ \E k \in DOMAIN timers : Tick(k)
    \/ \E k \in DOMAIN timers : MatchCallback(k)
    \/ \E k \in DOMAIN timers : MismatchCallback(k)

Spec == Init /\ [][Next]_vars

(***************************************************************************)
(* Properties of the game (checked under Spec).                            *)
(***************************************************************************)
\* the score shown while playing (the render calls calculateScore)
liveScore == calculateScore(mode, difficulty, matches, timeLeft)

lastToast == IF toasts = <<>> THEN "none" ELSE toasts[Len(toasts)]

\* the step is a confirm callback whose updater calls endGame(true)
WinStep ==
    lastOp' = "match" /\ \E k \in DOMAIN timers :
        /\ timers[k].kind = "match" /\ isLastPair(matches, timers[k].env)
        /\ MatchCallback(k)

\* C1, as stated: when a game ends by a win, the final score recorded is
\* calculateScore on the values of the moment of the end-game, that is with
\* matches equal to the number of pairs of the deck and the current timeLeft;
\* and that score is the one compared with the table of best scores.
C1_WinScoreCurrent ==
    [][WinStep =>
          LET final == calculateScore(mode', difficulty', Len(cards') \div 2, timeLeft')
              old   == findIndex(bestScores, mode', difficulty')
          IN  /\ matches' = Len(cards') \div 2
              /\ score' = final
              /\ (old = 0 \/ bestScores[old].score < final)
                    => bestScores'[findIndex(bestScores', mode', difficulty')].score = final
      ]_vars

\* a step is a callback of handleCardClick that fires while the next game is in
\* its preview: no card can be clicked before the preview ends, so the callback
\* was scheduled in the game before, and it fires after the new startGame
StaleCallbackStep ==
    /\ gameState = "preview"
    /\ lastOp' \in {"match", "mismatch"}
    /\ \E k \in DOMAIN timers : MatchCallback(k) \/ MismatchCallback(k)

\* C2, as stated: a confirm or mismatch callback scheduled in the previous game
\* that fires after the new startGame is a no-op: it changes none of cards,
\* flippedIndexes, matches, isChecking, gameState, score and bestScores.
C2_StaleCallbackNoOp ==
    [][StaleCallbackStep =>
          UNCHANGED <<cards, flippedIndexes, matches, isChecking, gameState,
                      score, bestScores>>
      ]_vars

\* the indexes of the entries of a table of best scores for a key
entriesOf(table, m, d) ==
    { i \in DOMAIN table : table[i].mode = m /\ table[i].difficulty = d }

uniqueKeys(table) ==
    \A m \in GameModes : \A d \in Difficulties :
        Cardinality(entriesOf(table, m, d)) <= 1

\* the entry of key (m, d) is not the same before and after the step
entryChanged(m, d) ==
    {bestScores'[i] : i \in entriesOf(bestScores', m, d)}
        # {bestScores[i] : i \in entriesOf(bestScores, m, d)}

\* C5: once the stored table is loaded, bestScores holds at most one entry
\* per (mode, difficulty); a step changes an entry only by ending a game, only
\* the entry of the game's own key, and only when the final score is strictly
\* greater than the score the key had (or the key had no entry); so the score
\* of a key never decreases and no entry disappears.
C5_BestScoresOnlyImprove ==
    /\ [](app = "mounted" => uniqueKeys(bestScores))
    /\ [][app = "mounted" =>
            \A m \in GameModes : \A d \in Difficulties :
                /\ \A i \in entriesOf(bestScores, m, d) :
                       \E j \in entriesOf(bestScores', m, d) :
                           bestScores'[j].score >= bestScores[i].score
                /\ entryChanged(m, d) =>
                       /\ gameState' = "finished" /\ lastOp' \in {"tick", "match"}
                       /\ m = mode /\ d = difficulty
                       /\ \A j \in entriesOf(bestScores', m, d) :
                              /\ bestScores'[j].score = score'
                              /\ \A i \in entriesOf(bestScores, m, d) :
                                     bestScores[i].score < score'
       ]_vars

\* a timed game lost with more than the 300 points stored for its key: the
\* entry of the key holds the new score, the entry of the other key is kept
C5_Witness ==
    /\ app = "mounted" /\ lastOp = "tick" /\ gameState = "finished"
    /\ mode = "chrono" /\ difficulty = "facile" /\ score > 300
    /\ Len(bestScores) = 2
    /\ bestScores[1] = StoredTable[1]
    /\ bestScores[2].score = score

\* the step is the tick of the interval that brings timeLeft to 0 in a timed
\* game where some pair is still to be found
LastTickStep ==
    /\ gameState = "playing" /\ mode = "chrono" /\ timeLeft = 1
    /\ 2 * matches < Len(cards)
    /\ lastOp' = "tick"
    /\ \E k \in DOMAIN timers : Tick(k)

\* C6: in a timed game, when timeLeft reaches 0 while playing with fewer than
\* all pairs found, the game becomes finished with the loss toast, the final
\* score is matches * baseScore (no time bonus), and the entry of
\* (chrono, difficulty) changes only if that score exceeds the score it held.
C6_TimeoutLoss ==
    [][LastTickStep =>
          LET final == matches * DIFFICULTY_CONFIG[difficulty].baseScore
          IN  /\ timeLeft' = 0 /\ gameState' = "finished"
              /\ toasts' = Append(toasts, "loss")
              /\ matches' = matches /\ score' = final
              /\ \A i \in entriesOf(bestScores, "chrono", difficulty) :
                     IF bestScores[i].score < final
                     THEN bestScores'[i].score = final
                     ELSE bestScores' = bestScores
              /\ entriesOf(bestScores, "chrono", difficulty) = {} =>
                     \E j \in entriesOf(bestScores', "chrono", difficulty) :
                         bestScores'[j].score = final
      ]_vars

\* a timed game lost with one pair found
C6_Witness ==
    /\ lastOp = "tick" /\ gameState = "finished" /\ mode = "chrono"
    /\ timeLeft = 0 /\ lastToast = "loss"
    /\ matches = 1 /\ score = DIFFICULTY_CONFIG[difficulty].baseScore

\* C7, as stated: once gameState is finished, until startGame or the return to
\* the setup, gameState stays finished, timeLeft is frozen, a click on a card
\* is ignored, and no timer callback changes cards, matches, score or
\* bestScores.
C7_FinishedTerminal ==
    [][(gameState = "finished" /\ lastOp' \notin {"startGame", "returnToSetup"}) =>
          /\ UNCHANGED <<gameState, timeLeft, cards, matches, score, bestScores>>
          /\ lastOp' = "click" => UNCHANGED <<flippedIndexes, isChecking>>
      ]_vars

C9_ConfirmMarksPair ==
    [][lastOp' = "match" => \A k \in DOMAIN timers :
          (timers[k].kind = "match" /\ MatchCallback(k)) =>
              LET firstIndex  == timers[k].env.firstIndex
                  secondIndex == timers[k].env.secondIndex
              IN  /\ DOMAIN cards' = DOMAIN cards
                  /\ \A i \in DOMAIN cards :
                         cards'[i] = IF i \in {firstIndex, secondIndex}
                                     THEN [cards[i] EXCEPT !.isMatched = TRUE]
                                     ELSE cards[i]
                  /\ flippedIndexes' = <<>>
                  /\ matches' = matches + 1
                  /\ isChecking' = FALSE
                  /\ (mode = "normal" /\ difficulty = "facile" /\ matches = 0) =>
                         /\ matches' = 1
                         /\ calculateScore(mode', difficulty', matches', timeLeft') = 100
      ]_vars

\* C10: the mismatch callback of two flipped cards with different icons clears
\* flippedIndexes and resets isChecking, and leaves the isMatched flag of every
\* card, matches, timeLeft, gameState and bestScores unchanged.
C10_MismatchFrame ==
    [][(lastOp' = "mismatch" /\ \E k \in DOMAIN timers :
                                     timers[k].kind = "mismatch" /\ MismatchCallback(k)) =>
          /\ flippedIndexes' = <<>>
          /\ isChecking' = FALSE
          /\ DOMAIN cards' = DOMAIN cards
          /\ \A i \in DOMAIN cards : cards'[i].isMatched = cards[i].isMatched
          /\ UNCHANGED <<matches, timeLeft, gameState, bestScores>>
      ]_vars

\* the mismatch callback has just fired in a game where one pair was found
C10_Witness ==
    /\ lastOp = "mismatch" /\ gameState = "playing" /\ matches = 1
    /\ flippedIndexes = <<>> /\ ~isChecking

\* the deck holds the cards createCards pushes for the difficulty, each one
\* once, in some order, none of them matched
isFreshDeck(deck, d) ==
    LET pushed == pushedCards(d)
    IN  /\ Len(deck) = Len(pushed)
        /\ \A k \in DOMAIN pushed :
               Cardinality({ l \in DOMAIN deck : deck[l] = pushed[k] }) = 1

\* C11: startGame, called in the setup, gives gameState preview with a freshly
\* built deck of the chosen difficulty, matches = 0, isChecking off,
\* flippedIndexes holding all the indexes of the deck, and timeLeft equal to the
\* time of the difficulty in chrono mode and to 0 otherwise; mode, difficulty
\* and bestScores are unchanged.
C11_StartGame ==
    [][lastOp' = "startGame" =>
          /\ gameState = "setup" /\ gameState' = "preview"
          /\ isFreshDeck(cards', difficulty)
          /\ matches' = 0 /\ isChecking' = FALSE
          /\ Len(flippedIndexes') = Len(cards')
          /\ { flippedIndexes'[a] : a \in DOMAIN flippedIndexes' } = DOMAIN cards'
          /\ timeLeft' = IF mode = "chrono"
                         THEN DIFFICULTY_CONFIG[difficulty].time ELSE 0
          /\ UNCHANGED <<mode, difficulty, bestScores>>
      ]_vars

\* the second game of a run has just been started, in chrono mode with the
\* largest deck, with a table of best scores that holds a score
C11_Witness ==
    /\ lastOp = "startGame" /\ games = 2 /\ gameState = "preview"
    /\ mode = "chrono" /\ difficulty = "extreme" /\ timeLeft = 45
    /\ Len(flippedIndexes) = 24 /\ matches = 0
    /\ bestScores # <<>> /\ bestScores[Len(bestScores)].score > 0

\* C12, as stated: a game started after the return to the setup keeps nothing
\* of the game before: during its preview (no card of the new game can have
\* been flipped yet) no card is matched and matches = 0, and when the preview
\* ends flippedIndexes is empty and isChecking is off.
C12_NoResidue ==
    games >= 2 =>
        /\ gameState = "preview" =>
               /\ matches = 0
               /\ \A i \in DOMAIN cards : ~cards[i].isMatched
        /\ (gameState = "playing" /\ lastOp = "previewEnd") =>
               /\ flippedIndexes = <<>>
               /\ ~isChecking

\* C13: during the preview a click on a card leaves the whole state unchanged
\* and timeLeft is not decremented; the only step that leaves the preview is
\* the expiry of its timer, which empties flippedIndexes and sets gameState to
\* playing, leaving cards, matches and timeLeft unchanged.
C13_PreviewFrame ==
    [][gameState = "preview" =>
          /\ lastOp' = "click" =>
                 UNCHANGED <<gameState, mode, difficulty, cards, flippedIndexes,
                             matches, isChecking, timeLeft, score, bestScores,
                             localStorage, timers, toasts>>
          /\ timeLeft' = timeLeft
          /\ gameState' \in {"preview", "playing"}
          /\ gameState' = "playing" =>
                 /\ lastOp' = "previewEnd"
                 /\ flippedIndexes' = <<>>
                 /\ UNCHANGED <<cards, matches, timeLeft>>
      ]_vars

\* a card has just been clicked during the preview of a timed game
C13_Witness ==
    /\ lastOp = "click" /\ gameState = "preview" /\ mode = "chrono"
    /\ Len(flippedIndexes) = Len(cards) /\ cards # <<>>
    /\ timeLeft = DIFFICULTY_CONFIG[difficulty].time

\* C15, as stated: loading the stored table of best scores never fails: when
\* the key is absent or its content is malformed, bestScores is empty and the
\* component goes on in the setup.
C15_LoadNeverFails ==
    lastOp = "mount" =>
        /\ app = "mounted" /\ gameState = "setup"
        /\ localStorage \in {StorageAbsent, StorageMalformed} => bestScores = <<>>

\* the timeouts of handleCardClick that have not fired yet
pendingChecks == { k \in DOMAIN timers : timers[k].kind \in {"match", "mismatch"} }

C18_OneEndGame ==
    /\ Len(toasts) <= 1
    /\ ~({"loss", "win"} \subseteq { toasts[a] : a \in DOMAIN toasts })

\* a deck without its isMatched flags
faces(deck) ==
    [i \in DOMAIN deck |->
        [id |-> deck[i].id, icon |-> deck[i].icon, color |-> deck[i].color]]

\* C19, as stated: in every state of the preview, of the play and of the
\* finished game, the number of matched cards is 2 * matches, matches is at most
\* the number of pairs of the deck, and the deck is the one startGame built for
\* the game: no step but startGame changes a card except for its isMatched flag.
C19_DeckAndCount ==
    /\ [](gameState \in {"preview", "playing", "finished"} =>
             /\ Cardinality({ i \in DOMAIN cards : cards[i].isMatched }) = 2 * matches
             /\ 2 * matches <= Len(cards))
    /\ [][lastOp' # "startGame" => faces(cards') = faces(cards)]_vars

(***************************************************************************)
(* The game with its timers firing: a timeout or an interval that is       *)
(* pending fires in the end (the browser runs every timer it holds); the   *)
(* player is free to click or not.                                         *)
(***************************************************************************)
TimerStep ==
    \E k \in DOMAIN timers :
        PreviewEnd(k) \/ Tick(k) \/ MatchCallback(k) \/ MismatchCallback(k)

TimersFire == WF_vars(TimerStep)

SpecLive == Init /\ [][Next]_vars /\ TimersFire

\* C20: with the timers firing, every game started in chrono mode reaches the
\* finished state in the end, every preview becomes playing in the end, and
\* every state with isChecking set is followed in the end by a state with
\* isChecking off and flippedIndexes empty, where clicks are taken again.
C20_Progress ==
    /\ (mode = "chrono" /\ gameState \in {"preview", "playing"})
           ~> (gameState = "finished")
    /\ (gameState = "preview") ~> (gameState = "playing")
    /\ isChecking ~> (~isChecking /\ flippedIndexes = <<>>)

\* a timed game was lost with a check pending, and the confirm callback has
\* ended the check afterwards
C20_Witness ==
    /\ gameState = "finished" /\ mode = "chrono" /\ lastOp = "match"
    /\ toasts = <<"loss">> /\ ~isChecking /\ flippedIndexes = <<>>

(***************************************************************************)
(* createCards on its own: one call, for any difficulty and any shuffle of *)
(* at most MaxSwaps exchanges of two neighbouring positions of the deck.   *)
(***************************************************************************)
DeckSwaps(d) ==
    LET n == 2 * DIFFICULTY_CONFIG[d].pairs
    IN  { <<i, i + 1>> : i \in 1..(n - 1) }

DeckShuffles(d) == UNION { [1..n -> DeckSwaps(d)] : n \in 0..MaxSwaps }

BuildDeck(d, rnd) ==
    /\ lastOp = "init"
    /\ cards' = createCards(d, rnd)
    /\ difficulty' = d
    /\ lastOp' = "createCards"
    /\ UNCHANGED <<app, gameState, mode, flippedIndexes, matches, isChecking,
                   timeLeft, score, bestScores, localStorage, timers, toasts,
                   games>>

NextDeck == \E d \in Difficulties : \E rnd \in DeckShuffles(d) : BuildDeck(d, rnd)

SpecDeck == Init /\ [][NextDeck]_vars

(***************************************************************************)
(* Properties of createCards (checked under SpecDeck).                     *)
(***************************************************************************)
cardsWithIcon(icon) == { k \in DOMAIN cards : cards[k].icon = icon }

pairsWithIcon(d, n) ==
    { i \in 0..(DIFFICULTY_CONFIG[d].pairs - 1) : i % Len(ICONS) = n - 1 }

\* C3, as stated: in the deck returned by createCards, every icon that occurs
\* in the deck occurs on exactly two cards.
C3_EveryIconTwice ==
    lastOp = "createCards" =>
        \A k \in DOMAIN cards : Cardinality(cardsWithIcon(cards[k].icon)) = 2

\* C3, corrected: the icons cycle through the six ICONS, so the n-th icon is on
\* two cards for each pair index i < pairs with i % 6 = n - 1 (two cards of
\* every icon for facile only; four cards of some icon for the other
\* difficulties), and the two cards of a pair (ids 2i and 2i + 1) carry the same
\* icon.
C3_IconsCycle ==
    lastOp = "createCards" =>
        /\ \A n \in DOMAIN ICONS :
               Cardinality(cardsWithIcon(ICONS[n]))
                   = 2 * Cardinality(pairsWithIcon(difficulty, n))
        /\ \A k \in DOMAIN cards : \A l \in DOMAIN cards :
               cards[k].id \div 2 = cards[l].id \div 2 => cards[k].icon = cards[l].icon
        /\ difficulty = "facile" =>
               \A n \in DOMAIN ICONS : Cardinality(cardsWithIcon(ICONS[n])) = 2

\* a shuffled deck of the largest difficulty, where every icon is on four cards
C3_Witness ==
    /\ lastOp = "createCards" /\ difficulty = "extreme"
    /\ cards # pushedCards("extreme")
    /\ Cardinality(cardsWithIcon("Heart")) = 4

\* C4: createCards returns 2 * pairs cards (12, 16, 20, 24), no two with the
\* same id, all with isMatched = false, and the result is a permutation of the
\* cards pushed before the shuffle.
C4_DeckShape ==
    lastOp = "createCards" =>
        LET pushed == pushedCards(difficulty)
        IN  /\ Len(cards) = 2 * DIFFICULTY_CONFIG[difficulty].pairs
            /\ Len(cards) = CASE difficulty = "facile" -> 12
                               [] difficulty = "moyen" -> 16
                               [] difficulty = "difficile" -> 20
                               [] difficulty = "extreme" -> 24
            /\ \A k \in DOMAIN cards : \A l \in DOMAIN cards :
                   cards[k].id = cards[l].id => k = l
            /\ \A k \in DOMAIN cards : cards[k].isMatched = FALSE
            /\ \A k \in DOMAIN pushed :
                   Cardinality({ l \in DOMAIN cards : cards[l] = pushed[k] }) = 1

\* a deck of twenty cards whose first card is not the first card pushed
C4_Witness ==
    /\ lastOp = "createCards" /\ difficulty = "difficile"
    /\ Len(cards) = 20 /\ cards[1].id # 0

(***************************************************************************)
(* calculateScore on its own: one call, for any mode, any difficulty, any  *)
(* number of pairs found up to the pairs of the difficulty and any time    *)
(* left up to the time of the difficulty.                                  *)
(***************************************************************************)
ComputeScore(m, d, matchCount, timeRemaining) ==
    /\ lastOp = "init"
    /\ mode' = m /\ difficulty' = d
    /\ matches' = matchCount /\ timeLeft' = timeRemaining
    /\ score' = calculateScore(m, d, matchCount, timeRemaining)
    /\ lastOp' = "calculateScore"
    /\ UNCHANGED <<app, gameState, cards, flippedIndexes, isChecking,
                   bestScores, localStorage, timers, toasts, games>>

NextScore ==
    \E m \in GameModes : \E d \in Difficulties :
        \E matchCount \in 0..DIFFICULTY_CONFIG[d].pairs :
            \E timeRemaining \in 0..DIFFICULTY_CONFIG[d].time :
                ComputeScore(m, d, matchCount, timeRemaining)

SpecScore == Init /\ [][NextScore]_vars

(***************************************************************************)
(* Properties of calculateScore (checked under SpecScore).                 *)
(***************************************************************************)
\* C14, as stated: calculateScore is matches * baseScore in normal mode, whatever
\* timeLeft is, and matches * baseScore + floor(timeLeft * baseScore * matches /
\* time) in chrono mode, for the four difficulties, 0 <= matches <= pairs and
\* 0 <= timeLeft <= time; e.g. (chrono, facile, 6, 120) gives 1200 and
\* (chrono, facile, 3, 0) gives 300.
C14_ScoreFormula ==
    lastOp = "calculateScore" =>
        LET baseScore == DIFFICULTY_CONFIG[difficulty].baseScore
            time      == DIFFICULTY_CONFIG[difficulty].time
        IN  /\ mode = "normal" => score = matches * baseScore
            /\ mode = "chrono" =>
                   score = matches * baseScore
                               + (timeLeft * baseScore * matches) \div time
            /\ (mode = "chrono" /\ difficulty = "facile" /\ matches = 6
                                /\ timeLeft = 120) => score = 1200
            /\ (mode = "chrono" /\ difficulty = "facile" /\ matches = 3
                                /\ timeLeft = 0) => score = 300

====
